---- MODULE Spec2Model ----
(***************************************************************************)
(* Transport layer of the Etherscan V2 SDK: the process-wide rate-limiter  *)
(* registry, the per-Transport LRU/TTL cache, the request deduplicator,    *)
(* the interceptor lists and the EtherscanClient disposal guard.           *)
(* Source: src/src/core/transport.ts, src/unnamed/part_001 (client.ts),    *)
(* src/src/resources/stats.ts:280-307 (resources/base.ts).                 *)
(***************************************************************************)
EXTENDS Integers, Sequences, FiniteSets, TLC

VARIABLES
  limiters,      \* GlobalRateLimiterRegistry.limiters : keyHash -> {limiter, refCount} | NoEntry
  nextLimiter,   \* identity of the next `new Bottleneck(...)`
  stopped,       \* limiters on which stop() has been called
  inst,          \* constructed Transport / EtherscanClient objects
  cache,         \* Transport.cache  (LRUCache) of every instance
  pending,       \* Transport.deduplicator.pendingRequests of every instance
  icpt,          \* Transport.interceptors of every instance
  calls,         \* one record per invocation of the deduplicated request factory
  now,           \* Date.now()
  ticks,         \* number of clock advances so far
  hung,          \* TRUE once a handler entered a loop it never leaves
  last,          \* the operation performed by the latest step and its result
  allowed,       \* Transport.ALLOWED_BASE_URLS of every instance
  fetch,         \* the fetchWithRetry activation of the request under study
  hist,          \* what the callers of an LRUCache have stored and used, per key
  ran            \* the interceptors invoked by the latest request or job step

vars == <<limiters, nextLimiter, stopped, inst, cache, pending, icpt, calls, now, ticks, hung, last,
          allowed, fetch, hist, ran>>

(***************************************************************************)
(* Bounds                                                                  *)
(***************************************************************************)
MaxInst == 3
MaxCalls == 2
MaxTicks == 1
MaxDispose == 2
MaxIcpt == 1

(***************************************************************************)
(* Program constants                                                       *)
(***************************************************************************)
DefaultMaxSize == 1000
DefaultTtl == 300000
MaxConcurrent == 2

Null == "null"
NoEntry == [limiter |-> 0, refCount |-> 0]

ApiKeys == {"k1", "k2"}
Sigs == {"a", "b"}
CacheKeys == {"", "a", "b"}
Insts == 1..MaxInst
CallIds == 1..MaxCalls

(***************************************************************************)
(* GlobalRateLimiterRegistry.hashKey: sha256 hex digest of the key.        *)
(* Distinct keys have distinct digests.                                    *)
(***************************************************************************)
hashKey(key) == IF key = "k1" THEN "6b0c" ELSE "f2a9"

KeyHashes == {hashKey(k) : k \in ApiKeys}

(***************************************************************************)
(* LRUCache (transport.ts:629-745).  A cache is a record                   *)
(*   map    : the Map<string, CacheEntry>, a function on the stored keys   *)
(*   order  : the accessOrder Set, in insertion order                      *)
(*   config : {maxSize, defaultTtl, enabled}                               *)
(***************************************************************************)
UndefinedTtl == -1

NoKeys == [k \in {} |-> 0]

DefaultConfig == [maxSize |-> DefaultMaxSize, defaultTtl |-> DefaultTtl, enabled |-> TRUE]

NewCache == [map |-> NoKeys, order |-> <<>>, config |-> DefaultConfig]

MapPut(m, key, e) == [k \in (DOMAIN m) \cup {key} |-> IF k = key THEN e ELSE m[k]]

MapDelete(m, key) == [k \in (DOMAIN m) \ {key} |-> m[k]]

SetDelete(order, key) == SelectSeq(order, LAMBDA k : k # key)

SetAdd(order, key) == IF \E n \in 1..Len(order) : order[n] = key THEN order ELSE Append(order, key)

\* JavaScript truthiness of `accessOrder.values().next().value`:
\* undefined (empty set) and the empty string are falsy.
FirstKeyTruthy(order) == order # <<>> /\ Head(order) # ""

CacheSize(c) == Cardinality(DOMAIN c.map)

\* An expiry test that already fires when exactly ttl has elapsed.
ExpiredAtTtl(e, t) == t - e.timestamp >= e.ttl

\* Date.now() - entry.timestamp > entry.ttl (transport.ts:650, :713)
Expired(e, t) == t - e.timestamp > e.ttl

LRUDelete(c, key) ==
  IF key \in DOMAIN c.map
  THEN [c EXCEPT !.map = MapDelete(@, key), !.order = SetDelete(@, key)]
  ELSE c

LRUClear(c) == [c EXCEPT !.map = NoKeys, !.order = <<>>]

LRUGet(c, key, t) ==
  IF ~c.config.enabled THEN [cache |-> c, value |-> Null]
  ELSE IF key \notin DOMAIN c.map THEN [cache |-> c, value |-> Null]
  ELSE IF Expired(c.map[key], t) THEN [cache |-> LRUDelete(c, key), value |-> Null]
  ELSE [cache |-> [c EXCEPT !.order = SetAdd(SetDelete(@, key), key)],
        value |-> c.map[key].data]

LRUEvictOne(c) ==
  IF CacheSize(c) >= c.config.maxSize /\ FirstKeyTruthy(c.order)
  THEN [c EXCEPT !.map = MapDelete(@, Head(c.order)), !.order = SetDelete(@, Head(c.order))]
  ELSE c

\* A set that does not look at config.enabled.
LRUSetAlways(c, key, value, ttl, t) ==
  LET entry == [data |-> value, timestamp |-> t,
                ttl |-> IF ttl = UndefinedTtl THEN c.config.defaultTtl ELSE ttl]
      d == IF key \in DOMAIN c.map THEN c ELSE LRUEvictOne(c)
  IN [d EXCEPT !.map = MapPut(@, key, entry), !.order = SetAdd(SetDelete(@, key), key)]

LRUSet(c, key, value, ttl, t) ==
  LET entry == [data |-> value, timestamp |-> t,
                ttl |-> IF ttl = UndefinedTtl THEN c.config.defaultTtl ELSE ttl]
  IN IF ~c.config.enabled THEN c
     ELSE IF key \in DOMAIN c.map
          THEN [c EXCEPT !.map = MapPut(@, key, entry),
                         !.order = SetAdd(SetDelete(@, key), key)]
          ELSE LET d == LRUEvictOne(c)
               IN [d EXCEPT !.map = MapPut(@, key, entry), !.order = SetAdd(@, key)]

LRUCleanup(c, t) ==
  LET dead == {k \in DOMAIN c.map : Expired(c.map[k], t)}
  IN [c EXCEPT !.map = [k \in (DOMAIN c.map) \ dead |-> c.map[k]],
               !.order = SelectSeq(@, LAMBDA k : k \notin dead)]

\* { ...this.config, ...config }
MergeConfig(cfg, partial) ==
  [f \in DOMAIN cfg |-> IF f \in DOMAIN partial THEN partial[f] ELSE cfg[f]]

\* The `while (size > maxSize)` loop of updateConfig.  It leaves the cache
\* unchanged for ever when the first access-order key is falsy: hung.
RECURSIVE LRUShrink(_)
LRUShrink(c) ==
  IF CacheSize(c) > c.config.maxSize
  THEN IF FirstKeyTruthy(c.order)
       THEN LRUShrink(LRUDelete(c, Head(c.order)))
       ELSE [cache |-> c, hung |-> TRUE]
  ELSE [cache |-> c, hung |-> FALSE]

LRUUpdateConfig(c, partial) ==
  LET merged == [c EXCEPT !.config = MergeConfig(c.config, partial)]
      cleared == IF ~merged.config.enabled THEN LRUClear(merged) ELSE merged
  IN LRUShrink(cleared)

LRUStats(c) == [size |-> CacheSize(c), maxSize |-> c.config.maxSize, enabled |-> c.config.enabled]

(***************************************************************************)
(* GlobalRateLimiterRegistry (transport.ts:10-55).  A registry state is    *)
(* the record [limiters, nextLimiter, stopped].                            *)
(***************************************************************************)
\* getLimiter: the registry after the call, and the limiter it returns.
RegistryGetLimiter(reg, apiKey) ==
  LET h == hashKey(apiKey)
      fresh == reg.limiters[h] = NoEntry
      entry == IF fresh THEN [limiter |-> reg.nextLimiter, refCount |-> 0]
               ELSE reg.limiters[h]
  IN [limiters |-> [reg.limiters EXCEPT ![h] = [entry EXCEPT !.refCount = @ + 1]],
      nextLimiter |-> IF fresh THEN reg.nextLimiter + 1 ELSE reg.nextLimiter,
      stopped |-> reg.stopped,
      limiter |-> entry.limiter]

\* cleanup: the registry after the call, and whether a refCount was decremented.
RegistryCleanup(reg, apiKey) ==
  LET h == hashKey(apiKey)
      entry == reg.limiters[h]
  IN IF entry = NoEntry
     THEN [limiters |-> reg.limiters, nextLimiter |-> reg.nextLimiter,
           stopped |-> reg.stopped, decremented |-> FALSE]
     ELSE IF entry.refCount - 1 <= 0
          THEN [limiters |-> [reg.limiters EXCEPT ![h] = NoEntry],
                nextLimiter |-> reg.nextLimiter,
                stopped |-> reg.stopped \cup {entry.limiter},
                decremented |-> TRUE]
          ELSE [limiters |-> [reg.limiters EXCEPT ![h].refCount = @ - 1],
                nextLimiter |-> reg.nextLimiter,
                stopped |-> reg.stopped,
                decremented |-> TRUE]

Registry == [limiters |-> limiters, nextLimiter |-> nextLimiter, stopped |-> stopped]

(***************************************************************************)
(* Schemas and responses.  A response is what fetchWithRetry finally       *)
(* produced (a Response or a thrown error) together with the headers and   *)
(* the body the job reads.                                                 *)
(***************************************************************************)
Schemas == {"BigIntSchema", "NullableString"}

Payloads == {"", "7", "abc"}

\* z.array(TransactionSchema) (account.ts:201) and the schema of
\* balancemulti, z.array(z.object({account, balance})) (account.ts:73-76).
ArraySchemas == {"TransactionListSchema", "BalanceListSchema"}

\* schema.safeParse(payload): types.ts:74-85 (BigInt(val), BigInt("") is 0n),
\* types.ts:94-97 ('' becomes null), and z.array(TransactionSchema)
\* (account.ts:201), which accepts no string.
SafeParse(schema, payload) ==
  IF schema = "BigIntSchema"
  THEN IF payload = "7" THEN [success |-> TRUE, data |-> "7n"]
       ELSE IF payload = "" THEN [success |-> TRUE, data |-> "0n"]
       ELSE [success |-> FALSE, data |-> Null]
  ELSE IF schema \in ArraySchemas
  THEN [success |-> FALSE, data |-> Null]
  ELSE [success |-> TRUE, data |-> IF payload = "" THEN Null ELSE payload]

\* schema.safeParse([]).success: z.array(...) accepts the empty array,
\* the two string schemas do not.
AcceptsEmptyArray(schema) == schema \in ArraySchemas

\* An empty-result branch that always returns the null placeholder.
EmptyResultNull(schema) == Null

\* What the empty-result branch returns (transport.ts:308-314).
EmptyResult(schema) == IF AcceptsEmptyArray(schema) THEN "[]" ELSE Null

JsonResponse(status, message, result) ==
  [fetch |-> "ok", httpOk |-> TRUE, contentType |-> "application/json", tooLarge |-> FALSE,
   parses |-> TRUE, status |-> status, message |-> message, result |-> result]

\* A response declared application/json whose body JSON.parse rejects.
NotJson == [JsonResponse("", "", "") EXCEPT !.parses = FALSE]

Responses ==
  {JsonResponse("1", "OK", p) : p \in Payloads}
  \cup {JsonResponse("0", "No transactions found", ""),
        JsonResponse("0", "NOTOK", "Max rate limit reached"),
        JsonResponse("0", "NOTOK", "Invalid API Key")}
  \cup {[JsonResponse("1", "OK", "7") EXCEPT !.fetch = f] : f \in {"AbortError", "ECONNRESET"}}
  \cup {[JsonResponse("1", "OK", "7") EXCEPT !.httpOk = FALSE],
        [JsonResponse("1", "OK", "7") EXCEPT !.contentType = "text/html"],
        [JsonResponse("1", "OK", "7") EXCEPT !.tooLarge = TRUE]}

\* The texts of the envelope fields and of the patterns, spelled out
\* character by character.
Chars(t) ==
  CASE t = "" -> <<>>
    [] t = "7" -> <<"7">>
    [] t = "abc" -> <<"a", "b", "c">>
    [] t = "OK" -> <<"O", "K">>
    [] t = "NOTOK" -> <<"N", "O", "T", "O", "K">>
    [] t = "No transactions found" -> <<"N", "o", " ", "t", "r", "a", "n", "s", "a", "c", "t", "i", "o", "n", "s", " ", "f", "o", "u", "n", "d">>
    [] t = "No transactions found." -> <<"N", "o", " ", "t", "r", "a", "n", "s", "a", "c", "t", "i", "o", "n", "s", " ", "f", "o", "u", "n", "d", ".">>
    [] t = "Rate Limit Exceeded" -> <<"R", "a", "t", "e", " ", "L", "i", "m", "i", "t", " ", "E", "x", "c", "e", "e", "d", "e", "d">>
    [] t = "Max rate limit reached" -> <<"M", "a", "x", " ", "r", "a", "t", "e", " ", "l", "i", "m", "i", "t", " ", "r", "e", "a", "c", "h", "e", "d">>
    [] t = "MAX RATE LIMIT REACHED" -> <<"M", "A", "X", " ", "R", "A", "T", "E", " ", "L", "I", "M", "I", "T", " ", "R", "E", "A", "C", "H", "E", "D">>
    [] t = "rate-limit" -> <<"r", "a", "t", "e", "-", "l", "i", "m", "i", "t">>
    [] t = "Invalid API Key" -> <<"I", "n", "v", "a", "l", "i", "d", " ", "A", "P", "I", " ", "K", "e", "y">>
    [] t = "Please upgrade your plan" -> <<"P", "l", "e", "a", "s", "e", " ", "u", "p", "g", "r", "a", "d", "e", " ", "y", "o", "u", "r", " ", "p", "l", "a", "n">>
    [] t = "rate limit" -> <<"r", "a", "t", "e", " ", "l", "i", "m", "i", "t">>
    [] t = "upgrade" -> <<"u", "p", "g", "r", "a", "d", "e">>
    [] t = "plan" -> <<"p", "l", "a", "n">>
    [] t = "free" -> <<"f", "r", "e", "e">>
    [] t = "not supported" -> <<"n", "o", "t", " ", "s", "u", "p", "p", "o", "r", "t", "e", "d">>

UpperCase ==
  <<"A", "B", "C", "D", "E", "F", "G", "H", "I", "J", "K", "L", "M", "N", "O", "P", "Q", "R", "S", "T", "U", "V", "W", "X", "Y", "Z">>

LowerCase ==
  <<"a", "b", "c", "d", "e", "f", "g", "h", "i", "j", "k", "l", "m", "n", "o", "p", "q", "r", "s", "t", "u", "v", "w", "x", "y", "z">>

\* The case folding of the i flag, on one character.
Fold(c) ==
  IF \E n \in 1..26 : UpperCase[n] = c
  THEN LowerCase[CHOOSE n \in 1..26 : UpperCase[n] = c]
  ELSE c

FoldAll(cs) == [n \in 1..Len(cs) |-> Fold(cs[n])]

\* cs has the characters of p, in order and adjacent, somewhere.
Contains(cs, p) ==
  \E k \in 0..(Len(cs) - Len(p)) : \A n \in 1..Len(p) : cs[k + n] = p[n]

\* /p/i.test(text)
TestI(p, text) == Contains(FoldAll(Chars(text)), Chars(p))

\* /p.*q/i.test(text)
TestThenI(p, q, text) ==
  LET cs == FoldAll(Chars(text))
  IN \E k \in 0..Len(cs) :
       /\ Contains(SubSeq(cs, 1, k), Chars(p))
       /\ Contains(SubSeq(cs, k + 1, Len(cs)), Chars(q))

\* /rate limit/i.test(data.result || '') (transport.ts:316)
RateLimited(r) == TestI("rate limit", r.result)

\* The three plan-upgrade tests (transport.ts:321-327).
PlanUpgrade(r) ==
  \/ TestThenI("upgrade", "plan", r.message)
  \/ TestThenI("upgrade", "plan", r.result)
  \/ TestThenI("free", "not supported", r.result)

Failure(code) == [ok |-> FALSE, code |-> code, data |-> Null, validated |-> FALSE]

\* The code property of a thrown value that is no EtherscanError.
Undefined == "undefined"

\* JSON.parse(text) throws a SyntaxError (transport.ts:299); nothing
\* catches it, and the call rejects with it.
ParseFailure == Failure(Undefined)

\* The body of the scheduled job after fetchWithRetry (transport.ts:230-354)
\* for the V2 endpoint: the value or error it ends with, and whether the
\* value went through schema validation (and so through cache.set).
JobResult(schema, r) ==
  IF r.fetch = "AbortError" THEN Failure("TIMEOUT_ERROR")
  ELSE IF r.fetch # "ok" THEN Failure("NETWORK_ERROR")
  ELSE IF ~r.httpOk THEN Failure("UNKNOWN_ERROR")
  ELSE IF r.contentType # "application/json" THEN Failure("INVALID_CONTENT_TYPE")
  ELSE IF r.tooLarge THEN Failure("RESPONSE_TOO_LARGE")
  ELSE IF ~r.parses THEN ParseFailure
  ELSE IF r.status = "0"
       THEN IF r.message = "No transactions found"
            THEN [ok |-> TRUE, code |-> "EMPTY", data |-> EmptyResult(schema),
                  validated |-> FALSE]
            ELSE IF RateLimited(r) THEN Failure("RATE_LIMIT_EXCEEDED")
            ELSE IF PlanUpgrade(r) THEN Failure("PLAN_UPGRADE_REQUIRED")
            ELSE Failure("API_LOGIC_ERROR")
  ELSE IF ~SafeParse(schema, r.result).success THEN Failure("SCHEMA_VALIDATION_ERROR")
  ELSE [ok |-> TRUE, code |-> "OK", data |-> SafeParse(schema, r.result).data,
        validated |-> TRUE]

\* A job that stores what it ends with before looking at the outcome.
JobCacheWriteAlways(c, sig, res, t) == LRUSet(c, sig, res.data, UndefinedTtl, t)

\* cache.set(cacheKey, validatedData) at transport.ts:294 and :351.
JobCacheWrite(c, sig, res, t) ==
  IF res.validated THEN LRUSet(c, sig, res.data, UndefinedTtl, t) ELSE c

(***************************************************************************)
(* Objects                                                                 *)
(***************************************************************************)
NoCall == [st |-> "none", inst |-> 0, sig |-> "", schema |-> "", limiter |-> 0,
           purged |-> FALSE, res |-> Failure("")]

NoPending == [s \in Sigs |-> 0]

NoInterceptors == [req |-> <<>>, resp |-> <<>>]

NoInst == [kind |-> "none", apiKey |-> "", limiter |-> 0, disposed |-> FALSE,
           disposeCalls |-> 0, released |-> 0, reservoir |-> 0]

Fns == {"f"}

\* No interceptor was invoked.
NoRun == [req |-> <<>>, resp |-> <<>>, url |-> "", schema |-> ""]

\* No fetchWithRetry activation.
NoFetch == [st |-> "idle", maxRetries |-> 0, retries |-> 0, log |-> <<>>,
            schema |-> "", res |-> Failure("")]

\* hist: for every key the latest set a later get corresponds to (none
\* once the key was deleted, cleared, disabled away or found expired), and
\* the stored keys in the order of their most recent set or successful get.
NoSet == [live |-> FALSE, data |-> Null, timestamp |-> 0, ttl |-> 0]

NoHist == [stored |-> [k \in CacheKeys |-> NoSet], recency |-> <<>>, hits |-> 0, misses |-> 0]

HistUse(h, key) == [h EXCEPT !.recency = Append(SelectSeq(@, LAMBDA k : k # key), key)]

HistForget(h, keys) ==
  [h EXCEPT !.stored = [k \in CacheKeys |-> IF k \in keys THEN NoSet ELSE @[k]]]

HistPast(h, key, t) == h.stored[key].live /\ t - h.stored[key].timestamp > h.stored[key].ttl

\* The recency order holds the keys of the entries the cache still has.
HistKeep(h, c) == [h EXCEPT !.recency = SelectSeq(@, LAMBDA k : k \in DOMAIN c.map)]

(***************************************************************************)
(* URLs.  `new URL(u)` (transport.ts:172-173, :189) throws on a string     *)
(* that is no URL; origin is scheme://host[:port] for the special schemes  *)
(* and the string "null" for any other scheme.                             *)
(***************************************************************************)
V2_ENDPOINT == "https://api.etherscan.io/v2/api"

\* Base URLs a caller passes to getWithUrl.
Urls == {V2_ENDPOINT, "http://api.etherscan.io/v2/api", "https://evil.example/v2/api",
         "foo://b", "not a url"}

\* Values of the constructor's allowedBaseUrls.
Allowlists == {{"https://api.etherscan.io"}, {}, {"foo://a"},
               {"http://api.etherscan.io", "https://api.etherscan.io"},
               {"not a url", "https://api.etherscan.io"}}

ParseUrl(u) ==
  IF u \in {V2_ENDPOINT, "https://api.etherscan.io"}
  THEN [valid |-> TRUE, protocol |-> "https:", origin |-> "https://api.etherscan.io"]
  ELSE IF u \in {"http://api.etherscan.io", "http://api.etherscan.io/v2/api"}
  THEN [valid |-> TRUE, protocol |-> "http:", origin |-> "http://api.etherscan.io"]
  ELSE IF u = "https://evil.example/v2/api"
  THEN [valid |-> TRUE, protocol |-> "https:", origin |-> "https://evil.example"]
  ELSE IF u \in {"foo://a", "foo://b"}
  THEN [valid |-> TRUE, protocol |-> "foo:", origin |-> "null"]
  ELSE [valid |-> FALSE, protocol |-> "", origin |-> ""]

\* The default of the constructor's allowedBaseUrls (transport.ts:77).
DefaultAllowed == {"https://api.etherscan.io"}

\* An allowlist test that lets every base URL pass.
IsAllowedAlways(list, baseUrl) == TRUE

\* ALLOWED_BASE_URLS.some(...) (transport.ts:170-178)
IsAllowed(list, baseUrl) ==
  \E a \in list :
    /\ ParseUrl(a).valid
    /\ ParseUrl(baseUrl).valid
    /\ ParseUrl(baseUrl).origin = ParseUrl(a).origin

Op(op, i, sig, res, call, value) ==
  [op |-> op, inst |-> i, sig |-> sig, res |-> res, call |-> call, value |-> value]

Init ==
  /\ limiters = [h \in KeyHashes |-> NoEntry]
  /\ nextLimiter = 1
  /\ stopped = {}
  /\ inst = [i \in Insts |-> NoInst]
  /\ cache = [i \in Insts |-> NewCache]
  /\ pending = [i \in Insts |-> NoPending]
  /\ icpt = [i \in Insts |-> NoInterceptors]
  /\ calls = [c \in CallIds |-> NoCall]
  /\ now = 0
  /\ ticks = 0
  /\ hung = FALSE
  /\ last = Op("init", 0, "", "", 0, "")
  /\ allowed = [i \in Insts |-> DefaultAllowed]
  /\ fetch = NoFetch
  /\ hist = NoHist
  /\ ran = NoRun

\* A checkDisposed that never throws.
ClientCheckDisposedNoop(i) == FALSE

\* EtherscanClient.checkDisposed (part_001:91-95): TRUE when it throws.
ClientCheckDisposed(i) == inst[i].disposed

\* The guard in front of every public method: the client's own methods call
\* checkDisposed first, a namespace method goes through the disposal proxy
\* (stats.ts:294-307).  A Transport that is used directly has no guard
\* (Transport.checkDisposed, transport.ts:359-361, is empty).
Throws(i) == inst[i].kind = "client" /\ ClientCheckDisposed(i)

Thrown(op, i, sig) ==
  /\ last' = Op(op, i, sig, "CLIENT_DISPOSED", 0, "")
  /\ ran' = NoRun
  /\ UNCHANGED <<allowed, fetch, hist, limiters, nextLimiter, stopped, inst, cache, pending, icpt, calls, now, ticks, hung>>

\* The default of the reservoir option (transport.ts:13, :78).
DefaultReservoir == 100000

\* new EtherscanClient(options) / new Transport(chainId, apiKey, ...)
ConstructWith(i, kind, apiKey, allowedBaseUrls, reservoir) ==
  /\ ~hung
  /\ inst[i].kind = "none"
  /\ \A j \in 1..(i - 1) : inst[j].kind # "none"
  /\ LET g == RegistryGetLimiter(Registry, apiKey)
     IN /\ limiters' = g.limiters
        /\ nextLimiter' = g.nextLimiter
        /\ stopped' = g.stopped
        /\ inst' = [inst EXCEPT ![i] = [kind |-> kind, apiKey |-> apiKey, limiter |-> g.limiter,
                                        disposed |-> FALSE, disposeCalls |-> 0, released |-> 0,
                                        reservoir |-> reservoir]]
  /\ cache' = [cache EXCEPT ![i] = NewCache]
  /\ pending' = [pending EXCEPT ![i] = NoPending]
  /\ icpt' = [icpt EXCEPT ![i] = NoInterceptors]
  /\ allowed' = [allowed EXCEPT ![i] = allowedBaseUrls]
  /\ last' = Op("construct", i, "", "", 0, "")
  /\ ran' = NoRun
  /\ UNCHANGED <<fetch, hist, calls, now, ticks, hung>>

\* The constructor with the default reservoir.
ConstructAllowing(i, kind, apiKey, allowedBaseUrls) ==
  ConstructWith(i, kind, apiKey, allowedBaseUrls, DefaultReservoir)

\* The constructor with the default allowedBaseUrls.
Construct(i, kind, apiKey) == ConstructAllowing(i, kind, apiKey, DefaultAllowed)

\* Transport.dispose (transport.ts:424-430)
TransportDispose(i, byClient) ==
  LET r == RegistryCleanup(Registry, inst[i].apiKey)
  IN /\ limiters' = r.limiters
     /\ nextLimiter' = r.nextLimiter
     /\ stopped' = r.stopped
     /\ inst' = [inst EXCEPT ![i].disposed = byClient,
                             ![i].disposeCalls = @ + 1,
                             ![i].released = @ + (IF r.decremented THEN 1 ELSE 0)]
     /\ pending' = [pending EXCEPT ![i] = NoPending]
     /\ cache' = [cache EXCEPT ![i] = LRUClear(@)]
     /\ last' = Op("dispose", i, "", "", 0, "")
     /\ ran' = NoRun
     /\ UNCHANGED <<allowed, fetch, hist, icpt, calls, now, ticks, hung>>

\* EtherscanClient.dispose (part_001:83-89), and dispose() called on a
\* Transport that is used without a client.
Dispose(i) ==
  /\ ~hung
  /\ inst[i].kind # "none"
  /\ inst[i].disposeCalls < MaxDispose
  /\ IF inst[i].kind = "client"
     THEN IF inst[i].disposed
          THEN /\ inst' = [inst EXCEPT ![i].disposeCalls = @ + 1]
               /\ last' = Op("dispose", i, "", "", 0, "")
               /\ ran' = NoRun
               /\ UNCHANGED <<allowed, fetch, hist, limiters, nextLimiter, stopped, cache, pending, icpt, calls, now, ticks, hung>>
          ELSE TransportDispose(i, TRUE)
     ELSE TransportDispose(i, FALSE)

(***************************************************************************)
(* RequestDeduplicator (transport.ts:750-777)                              *)
(***************************************************************************)
\* pendingRequests.get(key): the registered call, 0 when there is none.
DedupExisting(pend, key) == pend[key]

\* pendingRequests.set(key, promise)
DedupRegister(pend, key, call) == [pend EXCEPT ![key] = call]

\* A cleanup registered with then() instead of finally(): it is skipped
\* when the call fails.
DedupThen(pend, key, ok) == IF ok THEN [pend EXCEPT ![key] = 0] ELSE pend

\* the finally callback: pendingRequests.delete(key)
DedupFinally(pend, key, ok) == [pend EXCEPT ![key] = 0]

FreeCalls == {c \in CallIds : calls[c].st = "none"}

NextCall == CHOOSE c \in FreeCalls : \A d \in FreeCalls : c <= d

\* A request interceptor of the model: it sets the parameter in which the
\* signatures differ, so the intercepted parameters have signature "b".
RequestFn(f, sig) == "b"

\* InterceptorManager.applyRequestInterceptors (transport.ts:804-808), on
\* the signature of the parameters.
RECURSIVE ApplyRequestInterceptors(_, _)
ApplyRequestInterceptors(fs, sig) ==
  IF fs = <<>> THEN sig ELSE ApplyRequestInterceptors(Tail(fs), RequestFn(Head(fs), sig))

\* Transport.getWithUrl from the request interceptors on (transport.ts:
\* 200-214): the cache key is made from the intercepted parameters; a hit
\* returns through the response interceptors; a miss joins the registered
\* call or invokes the factory, which hands the job to limiter.schedule.
\* A stopped Bottleneck rejects the job at once. Every base URL of Urls
\* that passes the two checks under an allowlist of Allowlists is
\* V2_ENDPOINT, so the key stands for createCacheKey(V2_ENDPOINT, params).
GetWithUrl(i, baseUrl, sig, schema) ==
  LET key == ApplyRequestInterceptors(icpt[i].req, sig)
      g == LRUGet(cache[i], key, now)
      existing == DedupExisting(pending[i], key)
  IN /\ cache' = [cache EXCEPT ![i] = g.cache]
     /\ IF g.value # Null
        THEN /\ last' = Op("request", i, key, "cache", 0, g.value)
             /\ ran' = [req |-> icpt[i].req, resp |-> icpt[i].resp, url |-> baseUrl,
                        schema |-> schema]
             /\ UNCHANGED <<pending, calls>>
        ELSE IF existing # 0
             THEN /\ last' = Op("request", i, key, "joined", existing, "")
                  /\ ran' = [req |-> icpt[i].req, resp |-> <<>>, url |-> baseUrl, schema |-> schema]
                  /\ UNCHANGED <<pending, calls>>
             ELSE /\ FreeCalls # {}
                  /\ calls' = [calls EXCEPT ![NextCall] =
                       [st |-> IF inst[i].limiter \in stopped THEN "completed" ELSE "queued",
                        inst |-> i, sig |-> key, schema |-> schema,
                        limiter |-> inst[i].limiter,
                        purged |-> g.cache.map # cache[i].map,
                        res |-> IF inst[i].limiter \in stopped
                                THEN Failure("LIMITER_STOPPED") ELSE Failure("")]]
                  /\ pending' = [pending EXCEPT ![i] = DedupRegister(@, key, NextCall)]
                  /\ last' = Op("request", i, key, "fresh", NextCall, "")
                  /\ ran' = [req |-> icpt[i].req, resp |-> <<>>, url |-> baseUrl, schema |-> schema]
     /\ UNCHANGED <<allowed, fetch, hist, limiters, nextLimiter, stopped, inst, icpt, now, ticks, hung>>

\* The throw of getWithUrl before the interceptors (transport.ts:180-198).
Rejected(i, baseUrl, sig, code) ==
  /\ last' = Op("request", i, sig, code, 0, "")
  /\ ran' = [NoRun EXCEPT !.url = baseUrl]
  /\ UNCHANGED <<allowed, fetch, hist, limiters, nextLimiter, stopped, inst, cache, pending, icpt,
                 calls, now, ticks, hung>>

\* A namespace method of a client or a direct call of Transport.getWithUrl
\* (transport.ts:160-214), with the allowlist and HTTPS checks first.
RequestUrl(i, baseUrl, sig, schema) ==
  /\ ~hung
  /\ inst[i].kind # "none"
  /\ IF Throws(i) THEN Thrown("request", i, sig)
     ELSE IF ~IsAllowed(allowed[i], baseUrl) THEN Rejected(i, baseUrl, sig, "INVALID_ENDPOINT")
     ELSE IF ParseUrl(baseUrl).protocol # "https:" THEN Rejected(i, baseUrl, sig, "INSECURE_PROTOCOL")
     ELSE GetWithUrl(i, baseUrl, sig, schema)

\* A namespace method of a client, or Transport.get called directly
\* (transport.ts:107-116).
Request(i, sig, schema) == RequestUrl(i, V2_ENDPOINT, sig, schema)

Running(l) == {c \in CallIds : calls[c].st = "running" /\ calls[c].limiter = l}

\* The jobs a limiter has started: each took one unit of its reservoir.
Dispatched(l) ==
  {c \in CallIds : /\ calls[c].limiter = l
                   /\ calls[c].st \in {"running", "completed", "settled"}
                   /\ calls[c].res.code # "LIMITER_STOPPED"}

\* The reservoir a Bottleneck was created with: the option of the instance
\* whose getLimiter call found no entry (transport.ts:18-28).
LimiterReservoir(l) ==
  LET users == {i \in Insts : inst[i].kind # "none" /\ inst[i].limiter = l}
  IN inst[CHOOSE i \in users : \A j \in users : i <= j].reservoir

\* Bottleneck starts the oldest queued job of a limiter when fewer than
\* maxConcurrent of its jobs are running and its reservoir is not used up
\* (transport.ts:19-26, :214).
Dispatch(c) ==
  /\ ~hung
  /\ calls[c].st = "queued"
  /\ Cardinality(Running(calls[c].limiter)) < MaxConcurrent
  /\ Cardinality(Dispatched(calls[c].limiter)) < LimiterReservoir(calls[c].limiter)
  /\ \A d \in CallIds : (calls[d].st = "queued" /\ calls[d].limiter = calls[c].limiter) => c <= d
  /\ calls' = [calls EXCEPT ![c].st = "running"]
  /\ last' = Op("dispatch", 0, "", "", c, "")
  /\ ran' = NoRun
  /\ UNCHANGED <<allowed, fetch, hist, limiters, nextLimiter, stopped, inst, cache, pending, icpt, now, ticks, hung>>

\* The response interceptors the job applies to what it returns: all of
\* them on validated data (transport.ts:296, :354), none on the empty
\* result (transport.ts:310-313), none when it throws.
JobInterceptors(fs, res) == IF res.validated THEN fs ELSE <<>>

\* The job runs to its end with response r (transport.ts:230-354).
JobSettle(c, r) ==
  /\ ~hung
  /\ calls[c].st = "running"
  /\ LET res == JobResult(calls[c].schema, r)
         i == calls[c].inst
     IN /\ calls' = [calls EXCEPT ![c].st = "completed", ![c].res = res]
        /\ cache' = [cache EXCEPT ![i] = JobCacheWrite(@, calls[c].sig, res, now)]
        /\ last' = Op("jobdone", i, calls[c].sig, res.code, c, r)
        /\ ran' = [NoRun EXCEPT !.resp = JobInterceptors(icpt[i].resp, res)]
  /\ UNCHANGED <<allowed, fetch, hist, limiters, nextLimiter, stopped, inst, pending, icpt, now, ticks, hung>>

\* The promise of the factory settles: the finally callback runs and the
\* callers that hold the promise resume (transport.ts:757-760).
Finally(c) ==
  /\ ~hung
  /\ calls[c].st = "completed"
  /\ LET i == calls[c].inst
     IN /\ pending' = [pending EXCEPT ![i] = DedupFinally(@, calls[c].sig, calls[c].res.ok)]
        /\ calls' = [calls EXCEPT ![c] =
               [NoCall EXCEPT !.st = "settled", !.inst = i, !.sig = calls[c].sig,
                              !.limiter = IF calls[c].res.code = "LIMITER_STOPPED"
                                          THEN 0 ELSE calls[c].limiter]]
        /\ last' = Op("settled", 0, "", "", c, "")
  /\ ran' = NoRun
  /\ UNCHANGED <<allowed, fetch, hist, limiters, nextLimiter, stopped, inst, cache, icpt, now, ticks, hung>>

(***************************************************************************)
(* Cache and interceptor management (part_001:97-135, transport.ts:390-422)*)
(***************************************************************************)
GetCacheStats(i) ==
  /\ ~hung
  /\ inst[i].kind # "none"
  /\ IF Throws(i) THEN Thrown("getCacheStats", i, "")
     ELSE /\ last' = Op("getCacheStats", i, "", "", LRUStats(cache[i]).size, "")
          /\ ran' = NoRun
          /\ UNCHANGED <<allowed, fetch, hist, limiters, nextLimiter, stopped, inst, cache, pending, icpt, calls, now, ticks, hung>>

ClearCache(i) ==
  /\ ~hung
  /\ inst[i].kind # "none"
  /\ IF Throws(i) THEN Thrown("clearCache", i, "")
     ELSE /\ cache' = [cache EXCEPT ![i] = LRUClear(@)]
          /\ last' = Op("clearCache", i, "", "", 0, "")
          /\ ran' = NoRun
          /\ UNCHANGED <<allowed, fetch, hist, limiters, nextLimiter, stopped, inst, pending, icpt, calls, now, ticks, hung>>

TransportConfigs == {[maxSize |-> 1], [enabled |-> FALSE], [enabled |-> TRUE]}

UpdateCacheConfig(i, partial) ==
  /\ ~hung
  /\ inst[i].kind # "none"
  /\ IF Throws(i) THEN Thrown("updateCacheConfig", i, "")
     ELSE LET u == LRUUpdateConfig(cache[i], partial)
          IN /\ cache' = [cache EXCEPT ![i] = u.cache]
             /\ hung' = u.hung
             /\ last' = Op("updateCacheConfig", i, "", "", 0, "")
             /\ ran' = NoRun
             /\ UNCHANGED <<allowed, fetch, hist, limiters, nextLimiter, stopped, inst, pending, icpt, calls, now, ticks>>

AddRequestInterceptor(i, f) ==
  /\ ~hung
  /\ inst[i].kind # "none"
  /\ IF Throws(i) THEN Thrown("addRequestInterceptor", i, "")
     ELSE /\ Len(icpt[i].req) < MaxIcpt
          /\ icpt' = [icpt EXCEPT ![i].req = Append(@, f)]
          /\ last' = Op("addRequestInterceptor", i, "", "", 0, "")
          /\ ran' = NoRun
          /\ UNCHANGED <<allowed, fetch, hist, limiters, nextLimiter, stopped, inst, cache, pending, calls, now, ticks, hung>>

AddResponseInterceptor(i, f) ==
  /\ ~hung
  /\ inst[i].kind # "none"
  /\ IF Throws(i) THEN Thrown("addResponseInterceptor", i, "")
     ELSE /\ Len(icpt[i].resp) < MaxIcpt
          /\ icpt' = [icpt EXCEPT ![i].resp = Append(@, f)]
          /\ last' = Op("addResponseInterceptor", i, "", "", 0, "")
          /\ ran' = NoRun
          /\ UNCHANGED <<allowed, fetch, hist, limiters, nextLimiter, stopped, inst, cache, pending, calls, now, ticks, hung>>

ClearInterceptors(i) ==
  /\ ~hung
  /\ inst[i].kind # "none"
  /\ IF Throws(i) THEN Thrown("clearInterceptors", i, "")
     ELSE /\ icpt' = [icpt EXCEPT ![i] = NoInterceptors]
          /\ last' = Op("clearInterceptors", i, "", "", 0, "")
          /\ ran' = NoRun
          /\ UNCHANGED <<allowed, fetch, hist, limiters, nextLimiter, stopped, inst, cache, pending, calls, now, ticks, hung>>

\* Time passes: Date.now() grows by d.
Tick(d) ==
  /\ ~hung
  /\ ticks < MaxTicks
  /\ now' = now + d
  /\ ticks' = ticks + 1
  /\ last' = Op("tick", 0, "", "", 0, "")
  /\ ran' = NoRun
  /\ UNCHANGED <<allowed, fetch, hist, limiters, nextLimiter, stopped, inst, cache, pending, icpt, calls, hung>>

(***************************************************************************)
(* Spec: one Transport in use: requests, cache management and time.        *)
(* A method is a signature with the schema its caller passes.              *)
(***************************************************************************)
Methods == {<<"a", "BigIntSchema">>, <<"b", "NullableString">>}

Next ==
  \/ Construct(1, "transport", "k1")
  \/ \E i \in Insts, m \in Methods : Request(i, m[1], m[2])
  \/ \E c \in CallIds : Dispatch(c)
  \/ \E c \in CallIds, r \in Responses : JobSettle(c, r)
  \/ \E c \in CallIds : Finally(c)
  \/ \E i \in Insts : ClearCache(i)
  \/ \E i \in Insts, p \in TransportConfigs : UpdateCacheConfig(i, p)
  \/ Tick(DefaultTtl + 1)

Spec == Init /\ [][Next]_vars

(***************************************************************************)
(* SpecLifecycle: one Transport from construction to disposal and beyond   *)
(* (a Transport has no disposed guard): requests, clearCache, dispose.     *)
(***************************************************************************)
NextLifecycle ==
  \/ Construct(1, "transport", "k1")
  \/ \E i \in Insts : Dispose(i)
  \/ \E i \in Insts, m \in Methods : Request(i, m[1], m[2])
  \/ \E c \in CallIds : Dispatch(c)
  \/ \E c \in CallIds, r \in Responses : JobSettle(c, r)
  \/ \E c \in CallIds : Finally(c)
  \/ \E i \in Insts : ClearCache(i)

SpecLifecycle == Init /\ [][NextLifecycle]_vars

(***************************************************************************)
(* SpecDedup: Transports that share one credential, so that the limiter    *)
(* outlives the disposal of one of them; requests, disposal, clearCache.   *)
(***************************************************************************)
MaxTransports == 2

NextDedup ==
  \/ \E i \in 1..MaxTransports : Construct(i, "transport", "k1")
  \/ \E i \in Insts : Dispose(i)
  \/ \E i \in Insts, m \in Methods : Request(i, m[1], m[2])
  \/ \E c \in CallIds : Dispatch(c)
  \/ \E c \in CallIds, r \in Responses : JobSettle(c, r)
  \/ \E c \in CallIds : Finally(c)
  \/ \E i \in Insts : ClearCache(i)

SpecDedup == Init /\ [][NextDedup]_vars

(***************************************************************************)
(* SpecRegistry: clients and directly used Transports, with any            *)
(* credentials, constructed and disposed in any order.                     *)
(***************************************************************************)
Kinds == {"client", "transport"}

NextRegistry ==
  \/ \E i \in Insts, k \in Kinds, a \in ApiKeys : Construct(i, k, a)
  \/ \E i \in Insts : Dispose(i)

SpecRegistry == Init /\ [][NextRegistry]_vars

(***************************************************************************)
(* SpecClient: one client and every public method of EtherscanClient.      *)
(***************************************************************************)
\* A response that succeeds and one that fails.
ClientResponses == {JsonResponse("1", "OK", "7"), JsonResponse("0", "NOTOK", "Invalid API Key")}

NextClient ==
  \/ Construct(1, "client", "k1")
  \/ \E i \in Insts : Dispose(i)
  \/ \E i \in Insts, m \in Methods : Request(i, m[1], m[2])
  \/ \E c \in CallIds : Dispatch(c)
  \/ \E c \in CallIds, r \in ClientResponses : JobSettle(c, r)
  \/ \E c \in CallIds : Finally(c)
  \/ \E i \in Insts : GetCacheStats(i)
  \/ \E i \in Insts : ClearCache(i)
  \/ \E i \in Insts : UpdateCacheConfig(i, [maxSize |-> 1])
  \/ \E i \in Insts, f \in Fns : AddRequestInterceptor(i, f)
  \/ \E i \in Insts, f \in Fns : AddResponseInterceptor(i, f)
  \/ \E i \in Insts : ClearInterceptors(i)

SpecClient == Init /\ [][NextClient]_vars

(***************************************************************************)
(* SpecQuota: clients of one credential, constructed with a small          *)
(* reservoir and disposed, within one reservoirRefreshInterval.            *)
(***************************************************************************)
\* The reservoir option the clients are constructed with.
Reservoirs == {1}

NextQuota ==
  \/ \E i \in Insts, r \in Reservoirs : ConstructWith(i, "client", "k1", DefaultAllowed, r)
  \/ \E i \in Insts : Dispose(i)
  \/ \E i \in Insts : Request(i, "a", "BigIntSchema")
  \/ \E c \in CallIds : Dispatch(c)
  \/ \E c \in CallIds : JobSettle(c, JsonResponse("1", "OK", "7"))
  \/ \E c \in CallIds : Finally(c)

SpecQuota == Init /\ [][NextQuota]_vars

(***************************************************************************)
(* SpecAccount: one client whose account.getBalance is called with address *)
(* strings of every length class.                                          *)
(***************************************************************************)
MaxAddresses == 20

\* The number of non-empty comma-separated addresses in params.address.
AddressCounts == {0, 1, 2, MaxAddresses, MaxAddresses + 1}

\* A throw of the namespace method before it calls the transport.
AccountThrows(i, n, code) ==
  /\ last' = Op("getBalance", i, "", code, n, "")
  /\ ran' = NoRun
  /\ UNCHANGED <<allowed, fetch, hist, limiters, nextLimiter, stopped, inst, cache, pending, icpt,
                 calls, now, ticks, hung>>

\* Account.getBalance (account.ts:29-90) for an address string that names n
\* addresses, all of them well-formed or not: one address goes to the
\* balance endpoint with BigIntSchema, several go to balancemulti.
GetBalance(i, n, wellFormed) ==
  /\ ~hung
  /\ inst[i].kind = "client"
  /\ IF n = 1
     THEN IF ~wellFormed THEN AccountThrows(i, n, "SCHEMA_VALIDATION_ERROR")
          ELSE Request(i, "a", "BigIntSchema")
     ELSE IF n > 1
     THEN IF n > MaxAddresses THEN AccountThrows(i, n, Undefined)
          ELSE IF ~wellFormed THEN AccountThrows(i, n, "SCHEMA_VALIDATION_ERROR")
          ELSE Request(i, "b", "BalanceListSchema")
     ELSE AccountThrows(i, n, Undefined)

NextAccount ==
  \/ Construct(1, "client", "k1")
  \/ \E n \in AddressCounts, wellFormed \in BOOLEAN : GetBalance(1, n, wellFormed)
  \/ \E c \in CallIds : Dispatch(c)
  \/ \E c \in CallIds, r \in ClientResponses : JobSettle(c, r)
  \/ \E c \in CallIds : Finally(c)
  \/ Tick(DefaultTtl + 1)

SpecAccount == Init /\ [][NextAccount]_vars

(***************************************************************************)
(* SpecCacheKey: Transport.createCacheKey on two parameter objects.        *)
(* A parameter object is the sequence of its entries in insertion order.   *)
(***************************************************************************)
MaxParams == 2

\* Parameter names, in the order Array.prototype.sort gives them.
KeyOrder == <<"action", "address", "tag">>

ParamKeys == {KeyOrder[n] : n \in 1..MaxParams}

UndefinedValue == [type |-> "undefined", text |-> Undefined]

ParamValues == {[type |-> "string", text |-> "x"], [type |-> "number", text |-> "1"],
                UndefinedValue}

\* The parameter objects: every insertion order of every set of names,
\* with every value for each.
ParamObjects ==
  UNION {{ps \in [1..n -> ParamKeys \X ParamValues] :
            \A a, b \in 1..n : a # b => ps[a][1] # ps[b][1]} : n \in 0..MaxParams}

\* Object.keys(params)
ObjectKeys(params) == [n \in 1..Len(params) |-> params[n][1]]

\* params[key]
\* A key order that leaves the names in insertion order.
Unsorted(keys) == keys

\* Object.keys(params).sort() (transport.ts:378)
Sorted(keys) == SelectSeq(KeyOrder, LAMBDA k : \E n \in 1..Len(keys) : keys[n] = k)

\* The loop of createCacheKey over the keys (transport.ts:379-384): the
\* query entries appended to the URL.
RECURSIVE AppendParams(_, _)
AppendParams(keys, params) ==
  IF keys = <<>> THEN <<>>
  ELSE LET key == Head(keys)
           value == params[CHOOSE n \in 1..Len(params) : params[n][1] = key][2]
       IN (IF value # UndefinedValue THEN <<(<<key, value.text>>)>> ELSE <<>>)
          \o AppendParams(Tail(keys), params)

\* Transport.createCacheKey (transport.ts:366-388): url.toString() as the
\* base URL followed by its query entries.
createCacheKey(baseUrl, chainId, apiKey, params) ==
  <<baseUrl>>
  \o (IF baseUrl = V2_ENDPOINT THEN <<(<<"chainid", chainId>>), (<<"apikey", apiKey>>)>> ELSE <<>>)
  \o AppendParams(Sorted(ObjectKeys(params)), params)

\* Two calls of createCacheKey on one Transport with the same base URL.
CreateCacheKeys(p, q) ==
  /\ last.op = "init"
  /\ last' = Op("createCacheKey", 0, "", "", 0,
                [params |-> <<p, q>>,
                 keys |-> <<createCacheKey(V2_ENDPOINT, "1", "k1", p),
                            createCacheKey(V2_ENDPOINT, "1", "k1", q)>>])
  /\ UNCHANGED <<limiters, nextLimiter, stopped, inst, cache, pending, icpt, calls, now, ticks,
                 hung, allowed, fetch, hist, ran>>

NextCacheKey == \E p, q \in ParamObjects : CreateCacheKeys(p, q)

SpecCacheKey == Init /\ [][NextCacheKey]_vars

(***************************************************************************)
(* SpecSchema: the monetary-value schemas of types.ts applied to strings,  *)
(* a string being the sequence of its characters.                          *)
(***************************************************************************)
MaxStringLen == 3

Alphabet == {"1", "a", ".", "-", " "}

Strings == UNION {[1..n -> Alphabet] : n \in 0..MaxStringLen}

RECURSIVE TrimStart(_)
TrimStart(cs) == IF cs # <<>> /\ Head(cs) = " " THEN TrimStart(Tail(cs)) ELSE cs

RECURSIVE TrimEnd(_)
TrimEnd(cs) ==
  IF cs # <<>> /\ cs[Len(cs)] = " " THEN TrimEnd(SubSeq(cs, 1, Len(cs) - 1)) ELSE cs

IsDigits(cs) == cs # <<>> /\ \A n \in 1..Len(cs) : cs[n] = "1"

\* The value of a string of decimal digits.
RECURSIVE DigitsValue(_)
DigitsValue(cs) == IF cs = <<>> THEN 0 ELSE 10 * DigitsValue(SubSeq(cs, 1, Len(cs) - 1)) + 1

\* BigInt(val) on a string: white space is trimmed, the empty string is
\* 0n, an optional sign and decimal digits are the value, anything else
\* throws a SyntaxError.
BigIntOf(cs) ==
  LET t == TrimEnd(TrimStart(cs))
  IN IF t = <<>> THEN [throws |-> FALSE, value |-> 0]
     ELSE IF IsDigits(t) THEN [throws |-> FALSE, value |-> DigitsValue(t)]
     ELSE IF t[1] = "-" /\ IsDigits(Tail(t))
          THEN [throws |-> FALSE, value |-> 0 - DigitsValue(Tail(t))]
     ELSE [throws |-> TRUE, value |-> 0]

\* BigIntSchema (types.ts:75-85)
BigIntSchema(cs) ==
  IF BigIntOf(cs).throws
  THEN [success |-> FALSE, defined |-> FALSE, value |-> 0]
  ELSE [success |-> TRUE, defined |-> TRUE, value |-> BigIntOf(cs).value]

\* The amount field of BridgeTransactionSchema (types.ts:240-247), for a
\* field that is present.
BridgeAmount(cs) ==
  IF cs = <<>> \/ BigIntOf(cs).throws
  THEN [success |-> TRUE, defined |-> FALSE, value |-> 0]
  ELSE [success |-> TRUE, defined |-> TRUE, value |-> BigIntOf(cs).value]

MonetarySchemas == {"BigIntSchema", "BridgeTransactionSchema.amount"}

MonetaryParse(schema, cs) == IF schema = "BigIntSchema" THEN BigIntSchema(cs) ELSE BridgeAmount(cs)

\* schema.safeParse(val)
ParseMonetary(schema, cs) ==
  /\ last.op = "init"
  /\ last' = Op("safeParse", 0, schema, "", 0,
                [input |-> cs, output |-> MonetaryParse(schema, cs)])
  /\ UNCHANGED <<limiters, nextLimiter, stopped, inst, cache, pending, icpt, calls, now, ticks,
                 hung, allowed, fetch, hist, ran>>

NextSchema == \E schema \in MonetarySchemas, cs \in Strings : ParseMonetary(schema, cs)

SpecSchema == Init /\ [][NextSchema]_vars

(***************************************************************************)
(* SpecSameSignature: one Transport whose callers pass different schemas   *)
(* with the same parameters.                                               *)
(***************************************************************************)
NextSameSignature ==
  \/ Construct(1, "transport", "k1")
  \/ \E schema \in Schemas : Request(1, "a", schema)
  \/ \E c \in CallIds : Dispatch(c)
  \/ \E c \in CallIds, r \in ClientResponses : JobSettle(c, r)
  \/ \E c \in CallIds : Finally(c)
  \/ Tick(DefaultTtl + 1)

SpecSameSignature == Init /\ [][NextSameSignature]_vars

(***************************************************************************)
(* SpecCache: one LRUCache used directly (cache[1]), constructed with any  *)
(* configuration, under any sequence of its methods.                       *)
(***************************************************************************)
MaxCacheTicks == 1

CacheSizes == {-1, 0, 1, 2}

CacheTtls == {0, 1}

CacheVals == {"x", "y"}

CacheConfigs ==
  {[maxSize |-> n] : n \in CacheSizes}
  \cup {[enabled |-> b] : b \in BOOLEAN}
  \cup {[defaultTtl |-> t] : t \in CacheTtls}

\* new LRUCache(config)
InitCache ==
  /\ limiters = [h \in KeyHashes |-> NoEntry]
  /\ nextLimiter = 1
  /\ stopped = {}
  /\ inst = [i \in Insts |-> NoInst]
  /\ \E n \in CacheSizes \ {-1}, t \in CacheTtls :
       cache = [i \in Insts |-> IF i = 1
                  THEN [NewCache EXCEPT !.config = [maxSize |-> n, defaultTtl |-> t, enabled |-> TRUE]]
                  ELSE NewCache]
  /\ pending = [i \in Insts |-> NoPending]
  /\ icpt = [i \in Insts |-> NoInterceptors]
  /\ calls = [c \in CallIds |-> NoCall]
  /\ now = 0
  /\ ticks = 0
  /\ hung = FALSE
  /\ last = Op("init", 0, "", "", 0, "")
  /\ allowed = [i \in Insts |-> DefaultAllowed]
  /\ fetch = NoFetch
  /\ hist = NoHist
  /\ ran = NoRun

CacheFrame == UNCHANGED <<limiters, nextLimiter, stopped, inst, pending, icpt, calls, allowed, fetch, ran>>

CacheGet(key) ==
  /\ ~hung
  /\ LET g == LRUGet(cache[1], key, now)
         h == IF HistPast(hist, key, now) THEN HistForget(hist, {key})
              ELSE IF g.value # Null THEN HistUse(hist, key) ELSE hist
     IN /\ cache' = [cache EXCEPT ![1] = g.cache]
        /\ hist' = HistKeep(h, g.cache)
        /\ last' = Op("get", 0, key, IF g.value = Null THEN "miss" ELSE "hit", 0, g.value)
  /\ CacheFrame
  /\ UNCHANGED <<now, ticks, hung>>

CacheSet(key, value, ttl) ==
  /\ ~hung
  /\ LET c == LRUSet(cache[1], key, value, ttl, now)
         e == [live |-> TRUE, data |-> value, timestamp |-> now,
               ttl |-> IF ttl = UndefinedTtl THEN cache[1].config.defaultTtl ELSE ttl]
         h == IF cache[1].config.enabled
              THEN HistUse([hist EXCEPT !.stored[key] = e], key)
              ELSE hist
     IN /\ cache' = [cache EXCEPT ![1] = c]
        /\ hist' = HistKeep(h, c)
  /\ last' = Op("set", 0, key, "", 0, value)
  /\ CacheFrame
  /\ UNCHANGED <<now, ticks, hung>>

CacheDelete(key) ==
  /\ ~hung
  /\ cache' = [cache EXCEPT ![1] = LRUDelete(@, key)]
  /\ hist' = HistKeep(HistForget(hist, {key}), LRUDelete(cache[1], key))
  /\ last' = Op("delete", 0, key, IF key \in DOMAIN cache[1].map THEN "true" ELSE "false", 0, "")
  /\ CacheFrame
  /\ UNCHANGED <<now, ticks, hung>>

CacheClear ==
  /\ ~hung
  /\ cache' = [cache EXCEPT ![1] = LRUClear(@)]
  /\ hist' = NoHist
  /\ last' = Op("clear", 0, "", "", 0, "")
  /\ CacheFrame
  /\ UNCHANGED <<now, ticks, hung>>

CacheCleanup ==
  /\ ~hung
  /\ cache' = [cache EXCEPT ![1] = LRUCleanup(@, now)]
  /\ hist' = HistKeep(HistForget(hist, {k \in CacheKeys : HistPast(hist, k, now)}),
                      LRUCleanup(cache[1], now))
  /\ last' = Op("cleanup", 0, "", "", 0, "")
  /\ CacheFrame
  /\ UNCHANGED <<now, ticks, hung>>

CacheUpdateConfig(partial) ==
  /\ ~hung
  /\ LET u == LRUUpdateConfig(cache[1], partial)
     IN /\ cache' = [cache EXCEPT ![1] = u.cache]
        /\ hung' = u.hung
        /\ hist' = HistKeep(HistForget(hist, CacheKeys \ DOMAIN u.cache.map), u.cache)
  /\ last' = Op("updateConfig", 0, "", "", 0, "")
  /\ CacheFrame
  /\ UNCHANGED <<now, ticks>>

CacheTick ==
  /\ ~hung
  /\ ticks < MaxCacheTicks
  /\ now' = now + 1
  /\ ticks' = ticks + 1
  /\ last' = Op("tick", 0, "", "", 0, "")
  /\ CacheFrame
  /\ UNCHANGED <<cache, hung, hist>>

NextCache ==
  \/ \E k \in CacheKeys : CacheGet(k)
  \/ \E k \in CacheKeys, v \in CacheVals, t \in CacheTtls \cup {UndefinedTtl} : CacheSet(k, v, t)
  \/ \E k \in CacheKeys : CacheDelete(k)
  \/ CacheClear
  \/ CacheCleanup
  \/ \E p \in CacheConfigs : CacheUpdateConfig(p)
  \/ CacheTick

SpecCache == InitCache /\ [][NextCache]_vars

(***************************************************************************)
(* SpecStats: one LRUCache whose get calls are counted by their outcome,   *)
(* and whose stats() is read.                                              *)
(***************************************************************************)
MaxGets == 2

\* cache.get(key), counted in hist as a hit or a miss.
StatsGet(key) ==
  /\ ~hung
  /\ hist.hits + hist.misses < MaxGets
  /\ LET g == LRUGet(cache[1], key, now)
     IN /\ cache' = [cache EXCEPT ![1] = g.cache]
        /\ hist' = IF g.value # Null THEN [hist EXCEPT !.hits = @ + 1]
                   ELSE [hist EXCEPT !.misses = @ + 1]
        /\ last' = Op("get", 0, key, IF g.value = Null THEN "miss" ELSE "hit", 0, g.value)
  /\ CacheFrame
  /\ UNCHANGED <<now, ticks, hung>>

\* cache.stats()
CacheStats ==
  /\ ~hung
  /\ last' = Op("stats", 0, "", "", 0, LRUStats(cache[1]))
  /\ CacheFrame
  /\ UNCHANGED <<cache, hist, now, ticks, hung>>

NextStats ==
  \/ \E k \in CacheKeys : StatsGet(k)
  \/ \E k \in CacheKeys : CacheSet(k, "x", UndefinedTtl)
  \/ \E k \in CacheKeys : CacheDelete(k)
  \/ CacheTick
  \/ CacheStats

SpecStats == InitCache /\ [][NextStats]_vars

(***************************************************************************)
(* SpecRetry: one activation of fetchWithRetry inside the scheduled job    *)
(* (transport.ts:118-151, :230-238).  What fetch() throws is a record      *)
(*   isError : the value is an instance of Error                           *)
(*   name    : its name                                                    *)
(*   codes   : the error codes its message includes                        *)
(* fetch.log lists what every attempt so far ended with.                   *)
(***************************************************************************)
MaxRetries == 2

RetryCodes == {"ECONNRESET", "ETIMEDOUT", "ENOTFOUND", "ECONNREFUSED"}

\* controller.abort() makes fetch reject with an AbortError.
AbortError == [kind |-> "error", isError |-> TRUE, name |-> "AbortError", codes |-> {},
               response |-> JsonResponse("", "", "")]

FetchError(isError, name, codes) ==
  [kind |-> "error", isError |-> isError, name |-> name, codes |-> codes,
   response |-> JsonResponse("", "", "")]

\* What fetch can reject with apart from the abort: an Error whose message
\* names one of the codes, an Error that names none (TypeError: fetch
\* failed, EPIPE), and a thrown value that is no Error.
FetchErrors ==
  {FetchError(TRUE, "Error", {c}) : c \in RetryCodes}
  \cup {FetchError(TRUE, "TypeError", {}), FetchError(TRUE, "Error", {"EPIPE"}),
        FetchError(FALSE, "", {"ECONNRESET"})}

Received(r) ==
  [kind |-> "response", isError |-> FALSE, name |-> "", codes |-> {}, response |-> r]

\* A retry test that takes every failure for a transient one.
IsRetryableAlways(e) == TRUE

\* A retry test that knows the error codes only.
IsRetryableByCode(e) == e.isError /\ e.codes \cap RetryCodes # {}

\* Transport.isRetryable (transport.ts:140-151)
isRetryable(e) == e.isError /\ (e.name = "AbortError" \/ e.codes \cap RetryCodes # {})

\* A retry condition that allows one attempt more than the budget.
RetriesLeftOrLast(retries) == retries >= 0

\* `retries > 0` (transport.ts:132)
RetriesLeft(retries) == retries > 0

\* The catch of the job around fetchWithRetry (transport.ts:233-238), as
\* the fetch field JobResult reads.
CaughtFetch(e) == IF e.isError /\ e.name = "AbortError" THEN "AbortError" ELSE "ECONNRESET"

\* The job calls fetchWithRetry(url): retries = this.maxRetries, and the
\* first fetch is issued.
FetchStart(n, schema) ==
  /\ fetch.st = "idle"
  /\ fetch' = [NoFetch EXCEPT !.st = "attempting", !.maxRetries = n, !.retries = n,
                              !.schema = schema]
  /\ UNCHANGED <<limiters, nextLimiter, stopped, inst, cache, pending, icpt, calls, now, ticks,
                 hung, last, allowed, hist, ran>>

\* The catch block of fetchWithRetry for the thrown value e.
FetchCatch(e) ==
  /\ fetch' = IF RetriesLeft(fetch.retries) /\ isRetryable(e)
              THEN [fetch EXCEPT !.st = "backoff", !.log = Append(@, e)]
              ELSE [fetch EXCEPT !.st = "done", !.log = Append(@, e),
                                 !.res = JobResult(fetch.schema,
                                   [JsonResponse("", "", "") EXCEPT !.fetch = CaughtFetch(e)])]
  /\ UNCHANGED <<limiters, nextLimiter, stopped, inst, cache, pending, icpt, calls, now, ticks,
                 hung, last, allowed, hist, ran>>

\* fetch rejects.
AttemptFails(e) ==
  /\ fetch.st = "attempting"
  /\ FetchCatch(e)

\* The timer set for this.timeout fires before fetch has completed:
\* controller.abort().
AttemptTimesOut ==
  /\ fetch.st = "attempting"
  /\ FetchCatch(AbortError)

\* fetch resolves with a Response; fetchWithRetry returns it and the job
\* goes on with it.
AttemptResponds(r) ==
  /\ fetch.st = "attempting"
  /\ r.fetch = "ok"
  /\ fetch' = [fetch EXCEPT !.st = "done", !.log = Append(@, Received(r)),
                            !.res = JobResult(fetch.schema, r)]
  /\ UNCHANGED <<limiters, nextLimiter, stopped, inst, cache, pending, icpt, calls, now, ticks,
                 hung, last, allowed, hist, ran>>

\* The backoff delay is over: fetchWithRetry(url, retries - 1).
BackoffElapses ==
  /\ fetch.st = "backoff"
  /\ fetch' = [fetch EXCEPT !.st = "attempting", !.retries = @ - 1]
  /\ UNCHANGED <<limiters, nextLimiter, stopped, inst, cache, pending, icpt, calls, now, ticks,
                 hung, last, allowed, hist, ran>>

NextRetry ==
  \/ \E n \in 0..MaxRetries, schema \in Schemas : FetchStart(n, schema)
  \/ \E e \in FetchErrors : AttemptFails(e)
  \/ AttemptTimesOut
  \/ \E r \in Responses : AttemptResponds(r)
  \/ BackoffElapses

SpecRetry == Init /\ [][NextRetry]_vars

\* The timer of the backoff delay fires.
FairSpecRetry == SpecRetry /\ WF_vars(BackoffElapses)

(***************************************************************************)
(* SpecInterceptors: one Transport whose interceptors are registered and   *)
(* cleared between requests; a job ends with data or with the empty result.*)
(***************************************************************************)
InterceptorResponses == {JsonResponse("1", "OK", "7"), JsonResponse("0", "No transactions found", "")}

NextInterceptors ==
  \/ Construct(1, "transport", "k1")
  \/ \E f \in Fns : AddRequestInterceptor(1, f)
  \/ \E f \in Fns : AddResponseInterceptor(1, f)
  \/ ClearInterceptors(1)
  \/ \E m \in Methods : Request(1, m[1], m[2])
  \/ \E c \in CallIds : Dispatch(c)
  \/ \E c \in CallIds, r \in InterceptorResponses : JobSettle(c, r)
  \/ \E c \in CallIds : Finally(c)

SpecInterceptors == Init /\ [][NextInterceptors]_vars

(***************************************************************************)
(* SpecEndpoint: one Transport constructed with an allowlist, called with  *)
(* base URLs of every kind while interceptors are registered and earlier   *)
(* requests have filled its cache.                                         *)
(***************************************************************************)
EndpointResponses == {JsonResponse("1", "OK", "7")}

NextEndpoint ==
  \/ \E l \in Allowlists : ConstructAllowing(1, "transport", "k1", l)
  \/ \E f \in Fns : AddRequestInterceptor(1, f)
  \/ \E u \in Urls, m \in Methods : RequestUrl(1, u, m[1], m[2])
  \/ \E c \in CallIds : Dispatch(c)
  \/ \E c \in CallIds, r \in EndpointResponses : JobSettle(c, r)
  \/ \E c \in CallIds : Finally(c)

SpecEndpoint == Init /\ [][NextEndpoint]_vars

(***************************************************************************)
(* SpecEnvelope: the job's handling of one received JSON response of the   *)
(* V2 endpoint, for every envelope made of the statuses, messages and      *)
(* results below and every schema.                                         *)
(***************************************************************************)
EnvelopeSchemas == Schemas \cup {"TransactionListSchema"}

EnvelopeMessages == {"OK", "NOTOK", "No transactions found", "No transactions found.",
                     "Rate Limit Exceeded", ""}

EnvelopeResults == {"", "7", "Max rate limit reached", "MAX RATE LIMIT REACHED", "rate-limit",
                    "Invalid API Key", "Please upgrade your plan"}

Envelopes ==
  {JsonResponse(st, m, res) : st \in {"0", "1"}, m \in EnvelopeMessages, res \in EnvelopeResults}
  \cup {NotJson,
        [JsonResponse("1", "OK", "7") EXCEPT !.httpOk = FALSE],
        [JsonResponse("1", "OK", "7") EXCEPT !.contentType = "text/html"],
        [JsonResponse("1", "OK", "7") EXCEPT !.tooLarge = TRUE]}

NextEnvelope ==
  \/ \E schema \in EnvelopeSchemas : FetchStart(0, schema)
  \/ \E r \in Envelopes : AttemptResponds(r)

SpecEnvelope == Init /\ [][NextEnvelope]_vars

(***************************************************************************)
(* Claims                                                                  *)
(***************************************************************************)
Unsettled(c) == calls[c].st \in {"queued", "running", "completed"}

CallsOf(i, s) == {c \in CallIds : calls[c].inst = i /\ calls[c].sig = s}

RequestStep(i, s) ==
  last'.op = "request" /\ last'.inst = i /\ last'.sig = s /\ last'.res # "CLIENT_DISPOSED"

\* C1: requests with the same signature that are issued while an earlier one
\* has not settled, with no cache entry for the signature, share one
\* invocation of the factory: such a request never starts a call of its own.
C1_SingleFactory ==
  [][\A i \in Insts, s \in Sigs :
       (RequestStep(i, s)
          /\ s \notin DOMAIN cache[i].map
          /\ \E c \in CallsOf(i, s) : Unsettled(c))
       => (calls' = calls /\ last'.res = "joined")]_vars

\* C2: in every reachable state at most one network call per Transport and
\* signature is live (issued and not yet settled).
C2_OneLiveCall ==
  \A i \in Insts, s \in Sigs :
    Cardinality({c \in CallsOf(i, s) : calls[c].st = "running"}) <= 1

\* C3: when the call for a signature settles its in-flight entry is gone, and
\* the next request for the signature that is not served from the cache
\* invokes the factory again instead of joining the settled call.
C3_FreshAfterSettle ==
  [][/\ \A c \in CallIds :
          (calls[c].st = "completed" /\ calls'[c].st = "settled")
          => pending'[calls[c].inst][calls[c].sig] = 0
     /\ \A i \in Insts, s \in Sigs :
          (RequestStep(i, s) /\ last'.res # "cache"
             /\ (\E c \in CallsOf(i, s) : calls[c].st = "settled")
             /\ ~(\E c \in CallsOf(i, s) : Unsettled(c)))
          => (last'.res = "fresh" /\ calls[last'.call].st = "none"
                /\ calls'[last'.call].st # "none")]_vars

\* C3 witness: a request has just invoked the factory, and its job is queued
\* on the limiter, for a signature whose earlier call on the same Transport
\* has settled.
C3_Witness ==
  /\ last.op = "request"
  /\ last.res = "fresh"
  /\ calls[last.call].st = "queued"
  /\ \E c \in CallsOf(last.inst, last.sig) : calls[c].st = "settled"

Undisposed(i) == inst[i].kind # "none" /\ inst[i].disposeCalls = 0

\* C4: a limiter is stopped (and its registry entry removed) only when no
\* client or Transport that acquired it remains undisposed.
C4_StopOnlyWhenUnowned ==
  \A i \in Insts :
    Undisposed(i) =>
      (inst[i].limiter \notin stopped
         /\ limiters[hashKey(inst[i].apiKey)].limiter = inst[i].limiter)

\* C5: all undisposed clients constructed with the same credential hold the
\* same limiter, and it is the one the registry holds for the credential.
C5_ClientsShareLimiter ==
  \A i \in Insts, j \in Insts :
    (inst[i].kind = "client" /\ inst[j].kind = "client"
       /\ Undisposed(i) /\ Undisposed(j) /\ inst[i].apiKey = inst[j].apiKey)
    => inst[i].limiter = inst[j].limiter

PublicOps == {"request", "getCacheStats", "clearCache", "updateCacheConfig",
              "addRequestInterceptor", "addResponseInterceptor", "clearInterceptors"}

\* C6: once a client is disposed, every call of a cache operation, an
\* interceptor operation or a namespace method throws the Disposed-client
\* error and changes neither the calls, the cache, the interceptors, the
\* in-flight registry nor the limiter registry.
C6_DisposedThrows ==
  [][\A i \in Insts :
       (inst[i].kind = "client" /\ inst[i].disposed
          /\ last'.op \in PublicOps /\ last'.inst = i)
       => (last'.res = "CLIENT_DISPOSED"
             /\ UNCHANGED <<calls, cache, icpt, pending, limiters, stopped>>)]_vars

\* C6 witness: a namespace method was called on a disposed client while one
\* of its earlier requests was still in flight, and it threw.
C6_Witness ==
  /\ last.op = "request"
  /\ last.res = "CLIENT_DISPOSED"
  /\ inst[last.inst].disposed
  /\ \E c \in CallsOf(last.inst, last.sig) : Unsettled(c)

\* C7: whatever the number of dispose() calls on a client, the reference
\* count of its credential was decremented exactly once by them.
C7_ReleasedOnce ==
  \A i \in Insts :
    (inst[i].kind = "client" /\ inst[i].disposeCalls >= 1) => inst[i].released = 1

\* C8: a request whose signature has an unexpired entry in the enabled cache
\* (a validated value stored by an earlier request and neither evicted nor
\* cleared) starts no call and does not reach the rate limiter.
C8_CachedMeansNoCall ==
  [][\A i \in Insts, s \in Sigs :
       (RequestStep(i, s)
          /\ cache[i].config.enabled
          /\ s \in DOMAIN cache[i].map
          /\ ~Expired(cache[i].map[s], now))
       => calls' = calls]_vars

Written(i, s) ==
  /\ s \in DOMAIN cache'[i].map
  /\ (s \in DOMAIN cache[i].map => cache'[i].map[s] # cache[i].map[s])

\* Every cache write is made by a job that ended with a validated value, and
\* stores that value.
WritesAreValidated ==
  \A i \in Insts, s \in Sigs :
    Written(i, s) =>
      /\ last'.op = "jobdone" /\ last'.inst = i /\ last'.sig = s /\ last'.res = "OK"
      /\ \E r \in Responses :
           /\ SafeParse(calls[last'.call].schema, r.result).success
           /\ cache'[i].map[s].data = SafeParse(calls[last'.call].schema, r.result).data

\* A job that ends in an error leaves every cache as it is.
FailedJobLeavesCache ==
  (last'.op = "jobdone" /\ last'.res \notin {"OK", "EMPTY"}) => cache' = cache

\* The lookup of a request removes at most the expired entry of its own
\* signature.
LookupOnlyPurgesOwnExpired ==
  \A i \in Insts, s \in Sigs :
    RequestStep(i, s) =>
      /\ \A j \in Insts \ {i} : cache'[j] = cache[j]
      /\ \/ cache'[i].map = cache[i].map
         \/ /\ s \in DOMAIN cache[i].map
            /\ Expired(cache[i].map[s], now)
            /\ cache'[i].map = MapDelete(cache[i].map, s)

\* The errors a request can end in: network, timeout, HTTP status, content
\* type, size, envelope failure, validation failure.
RequestErrors == {"NETWORK_ERROR", "TIMEOUT_ERROR", "UNKNOWN_ERROR", "INVALID_CONTENT_TYPE",
                  "RESPONSE_TOO_LARGE", "API_LOGIC_ERROR", "RATE_LIMIT_EXCEEDED",
                  "SCHEMA_VALIDATION_ERROR"}

\* C9 (as claimed): every cache write stores a validated value, and a request
\* that ends in an error has neither written nor changed any entry.
C9_FailedRequestChangesNothing ==
  [][/\ WritesAreValidated
     /\ FailedJobLeavesCache
     /\ \A c \in CallIds :
          (calls'[c].st = "completed" /\ calls'[c].res.code \in RequestErrors)
          => ~calls'[c].purged]_vars

\* C9 (amended): every cache write stores a validated value; a request that
\* ends in an error writes nothing, and the only entry it can change is the
\* expired entry of its own signature, which its lookup removes.
C9_FailedRequestWritesNothing ==
  [][WritesAreValidated /\ FailedJobLeavesCache /\ LookupOnlyPurgesOwnExpired]_vars

\* C9 witness: a request whose lookup removed the expired entry of its
\* signature has ended in an error, and the entry is still absent.
C9_Witness ==
  \E c \in CallIds :
    /\ calls[c].st = "completed"
    /\ calls[c].res.code = "SCHEMA_VALIDATION_ERROR"
    /\ calls[c].purged
    /\ calls[c].sig \notin DOMAIN cache[calls[c].inst].map

\* C10: the number of entries of the cache never exceeds its maxSize, after
\* any sequence of its methods that has returned.
C10_SizeWithinMaxSize ==
  ~hung => CacheSize(cache[1]) <= cache[1].config.maxSize

CacheStep(op, k) == last'.op = op /\ last'.sig = k /\ ~hung

\* C11 (as claimed): a get of a key within ttl of its latest set returns the
\* value that set stored; a get after ttl has elapsed returns absent and
\* the entry is gone.
C11_GetReturnsSetValue ==
  [][\A k \in CacheKeys :
       (CacheStep("get", k) /\ hist.stored[k].live /\ cache[1].config.maxSize >= 1)
       => IF now - hist.stored[k].timestamp <= hist.stored[k].ttl
          THEN last'.res = "hit" /\ last'.value = hist.stored[k].data
          ELSE last'.res = "miss" /\ k \notin DOMAIN cache'[1].map]_vars

\* C11 (amended): the same for a key whose entry no later set has evicted;
\* and an entry is what its set stored: the value, the time of the set and
\* the ttl passed to it (the default ttl when none was passed).
C11_GetReturnsUnevictedValue ==
  [][/\ \A k \in CacheKeys :
          (CacheStep("get", k) /\ hist.stored[k].live /\ k \in DOMAIN cache[1].map)
          => IF now - hist.stored[k].timestamp <= hist.stored[k].ttl
             THEN last'.res = "hit" /\ last'.value = hist.stored[k].data
                  /\ k \in DOMAIN cache'[1].map
             ELSE last'.res = "miss" /\ k \notin DOMAIN cache'[1].map
     /\ \A k \in CacheKeys :
          (CacheStep("set", k) /\ cache[1].config.enabled)
          => /\ k \in DOMAIN cache'[1].map
             /\ hist'.stored[k].live
             /\ cache'[1].map[k] = [data |-> hist'.stored[k].data,
                                     timestamp |-> hist'.stored[k].timestamp,
                                     ttl |-> hist'.stored[k].ttl]]_vars

\* C11 witness: a get made exactly ttl after the set of its key, with time
\* having passed, returned the stored value.
C11_Witness ==
  /\ last.op = "get"
  /\ last.res = "hit"
  /\ hist.stored[last.sig].live
  /\ now > hist.stored[last.sig].timestamp
  /\ now - hist.stored[last.sig].timestamp = hist.stored[last.sig].ttl
  /\ last.value = hist.stored[last.sig].data

\* C12: a set of a new key into an enabled cache that holds exactly maxSize
\* entries (at least one) removes the entry whose most recent set or
\* successful get is the oldest, and no other entry.
C12_EvictsLeastRecentlyUsed ==
  [][\A k \in CacheKeys :
       (CacheStep("set", k)
          /\ cache[1].config.enabled
          /\ k \notin DOMAIN cache[1].map
          /\ CacheSize(cache[1]) = cache[1].config.maxSize
          /\ CacheSize(cache[1]) >= 1)
       => DOMAIN cache'[1].map = ((DOMAIN cache[1].map) \ {Head(hist.recency)}) \cup {k}]_vars

\* C13: a disabled cache is empty, whatever is set; a get on it returns
\* absent; updateConfig that leaves the cache disabled leaves it empty.
C13_DisabledCacheIsEmpty ==
  [][/\ ~cache'[1].config.enabled
          => (cache'[1].map = NoKeys /\ cache'[1].order = <<>>)
     /\ (last'.op = "get" /\ ~cache[1].config.enabled)
          => (last'.res = "miss" /\ cache'[1] = cache[1])]_vars

\* C13 witness: a set has just been made on a disabled cache, it has
\* returned, and the cache is empty.
C13_Witness ==
  /\ last.op = "set"
  /\ ~cache[1].config.enabled
  /\ cache[1].map = NoKeys
  /\ ~hung

\* The transient class: the attempt was aborted by the timeout, or failed
\* with a connection reset, a connection timeout, a DNS failure or a
\* refused connection.
TransientFailure(x) ==
  /\ x.kind = "error"
  /\ x.isError
  /\ (x.name = "AbortError"
        \/ \E c \in {"ECONNRESET", "ETIMEDOUT", "ENOTFOUND", "ECONNREFUSED"} : c \in x.codes)

\* The number of attempts from the first on that failed transiently.
RECURSIVE LeadingTransient(_)
LeadingTransient(log) ==
  IF log # <<>> /\ TransientFailure(Head(log)) THEN 1 + LeadingTransient(Tail(log)) ELSE 0

Attempts == Len(fetch.log)

MinOf(a, b) == IF a <= b THEN a ELSE b

AttemptsAsBudgeted ==
  LET k == LeadingTransient(fetch.log)
  IN /\ Attempts = MinOf(k + 1, 1 + fetch.maxRetries)
     /\ ((k <= fetch.maxRetries /\ fetch.log[k + 1].kind = "response")
          => fetch.res = JobResult(fetch.schema, fetch.log[k + 1].response))

\* C14 (as claimed): when the first k attempts fail transiently the request
\* makes min(k + 1, 1 + maxRetries) attempts, goes on with the response of
\* attempt k + 1, and ends in the Network error after 1 + maxRetries
\* attempts when every attempt failed.
C14_AttemptsAndNetworkError ==
  fetch.st = "done" =>
    /\ AttemptsAsBudgeted
    /\ (LeadingTransient(fetch.log) = Attempts
          => (Attempts = 1 + fetch.maxRetries /\ fetch.res.code = "NETWORK_ERROR"))

\* C14 (amended): the same, the terminal error being the Timeout error when
\* the last attempt was aborted by the timeout and the Network error
\* otherwise.
C14_AttemptsAndTerminalError ==
  fetch.st = "done" =>
    /\ AttemptsAsBudgeted
    /\ (LeadingTransient(fetch.log) = Attempts
          => (/\ Attempts = 1 + fetch.maxRetries
              /\ fetch.res.code = IF fetch.log[Attempts].name = "AbortError"
                                   THEN "TIMEOUT_ERROR" ELSE "NETWORK_ERROR"))

\* C14 witness: with a budget of two retries every one of three attempts
\* failed transiently, the last by a connection reset, and the request
\* ended in the Network error.
C14_Witness ==
  /\ fetch.st = "done"
  /\ fetch.maxRetries = 2
  /\ Attempts = 3
  /\ LeadingTransient(fetch.log) = 3
  /\ "ECONNRESET" \in fetch.log[3].codes
  /\ fetch.res.code = "NETWORK_ERROR"

Aborted(log) == log # <<>> /\ log[Len(log)].kind = "error" /\ log[Len(log)].name = "AbortError"

\* C16: an attempt aborted by the timeout is followed by the backoff and
\* another attempt with one retry less whenever a retry is left, and ends
\* the request with the Timeout error only when none is left.
C16_TimeoutIsTransient ==
  /\ [][/\ ((Len(fetch'.log) = Len(fetch.log) + 1 /\ Aborted(fetch'.log))
              => IF fetch.retries > 0
                 THEN fetch'.st = "backoff"
                 ELSE fetch'.st = "done" /\ fetch'.res.code = "TIMEOUT_ERROR")
         /\ ((fetch.st = "backoff" /\ fetch'.st # "backoff")
              => (fetch'.st = "attempting" /\ fetch'.retries = fetch.retries - 1))
         /\ ((fetch'.st = "done" /\ fetch'.res.code = "TIMEOUT_ERROR")
              => (fetch'.retries = 0 /\ Aborted(fetch'.log)))]_vars
  /\ ((fetch.st = "backoff" /\ Aborted(fetch.log)) ~> fetch.st = "attempting")

\* C16 witness: the first attempt was aborted by the timeout, a second one
\* followed, and the request ended in the Timeout error when the last
\* attempt the budget allowed was aborted too.
C16_Witness ==
  /\ fetch.st = "done"
  /\ fetch.maxRetries >= 1
  /\ Attempts = 1 + fetch.maxRetries
  /\ fetch.log[1].name = "AbortError"
  /\ Aborted(fetch.log)
  /\ fetch.res.code = "TIMEOUT_ERROR"

\* A step in which a request hands a value to its callers: a cache hit, or
\* a job that ends without an error (its promise is the one every caller
\* of the shared in-flight call holds).
ReturnsValue ==
  \/ last'.op = "request" /\ last'.res = "cache"
  \/ last'.op = "jobdone" /\ calls'[last'.call].res.ok

\* C17: whenever a request hands a value to its callers, all the response
\* interceptors registered on its transport have been applied to the value,
\* in registration order.
C17_ResponseInterceptorsOnEveryPath ==
  [][ReturnsValue => ran'.resp = icpt[last'.inst].resp]_vars

\* The origin of base URL u is the origin of an entry of the allowlist.
\* (A URL that does not parse has no origin; the opaque origin of a URL
\* with a non-special scheme is the same as no other origin.)
OriginListed(list, u) ==
  /\ ParseUrl(u).valid
  /\ ParseUrl(u).origin # "null"
  /\ \E a \in list : ParseUrl(a).valid /\ ParseUrl(a).origin = ParseUrl(u).origin

\* C18: a call of getWithUrl with a base URL whose origin is not in the
\* allowlist or whose scheme is not HTTPS is rejected; no request
\* interceptor has run, and the cache, the in-flight registry, the calls
\* handed to the limiter and the limiters are as they were.
C18_RejectedBeforeAnything ==
  [][(/\ last'.op = "request"
      /\ ran'.url # ""
      /\ (~OriginListed(allowed[last'.inst], ran'.url) \/ ParseUrl(ran'.url).protocol # "https:"))
     => (/\ last'.res \in {"INVALID_ENDPOINT", "INSECURE_PROTOCOL"}
         /\ ran'.req = <<>>
         /\ UNCHANGED <<cache, pending, calls, limiters, stopped>>)]_vars

\* C18 witness: with a request interceptor registered and a value in the
\* cache, a call on the plain-HTTP URL of a host that is listed with that
\* scheme was rejected for its scheme.
C18_Witness ==
  /\ last.op = "request"
  /\ last.res = "INSECURE_PROTOCOL"
  /\ ran.url = "http://api.etherscan.io/v2/api"
  /\ icpt[1].req # <<>>
  /\ DOMAIN cache[1].map # {}
  /\ "http://api.etherscan.io" \in allowed[1]

\* C18 witness of the allowlist branch: a call on an HTTPS URL of a host
\* that is not listed was rejected while request interceptors were
\* registered.
C18_WitnessNotListed ==
  /\ last.op = "request"
  /\ last.res = "INVALID_ENDPOINT"
  /\ ran.url = "https://evil.example/v2/api"
  /\ icpt[1].req # <<>>

\* The envelope the job has handled, once it is done with a received one.
Handled == fetch.st = "done" /\ fetch.log[Attempts].kind = "response"

Envelope == fetch.log[Attempts].response

StatusFailure(r) ==
  r.httpOk /\ r.contentType = "application/json" /\ ~r.tooLarge /\ r.parses /\ r.status = "0"

\* C19: a status-failure envelope, other than the empty-result sentinel,
\* whose message or whose result contains "rate limit" in any letter case
\* ends the request with the Rate-limit error.
C19_RateLimitInMessageOrResult ==
  (/\ Handled
   /\ StatusFailure(Envelope)
   /\ Envelope.message # "No transactions found"
   /\ (TestI("rate limit", Envelope.message) \/ TestI("rate limit", Envelope.result)))
  => fetch.res.code = "RATE_LIMIT_EXCEEDED"

\* C20: a status-failure envelope whose message is exactly "No
\* transactions found" ends the request without an error, with the empty
\* array for a schema that accepts it and with null for any other schema,
\* whatever the result holds.
C20_EmptyResultIsNoError ==
  (/\ Handled
   /\ StatusFailure(Envelope)
   /\ Envelope.message = "No transactions found")
  => /\ fetch.res.ok
     /\ fetch.res.data = IF fetch.schema = "TransactionListSchema" THEN "[]" ELSE Null

\* C20 witness: the sentinel came with a result text that names the rate
\* limit, for the schema of a transaction list, and the request returned
\* the empty array.
C20_Witness ==
  /\ Handled
  /\ Envelope.status = "0"
  /\ Envelope.message = "No transactions found"
  /\ Envelope.result = "Max rate limit reached"
  /\ fetch.schema = "TransactionListSchema"
  /\ fetch.res.ok
  /\ fetch.res.data = "[]"

\* The codes of the typed errors (errors.ts, transport.ts:181-268).
TypedCodes ==
  {"UNKNOWN_ERROR", "API_LOGIC_ERROR", "RATE_LIMIT_EXCEEDED", "PLAN_UPGRADE_REQUIRED",
   "SCHEMA_VALIDATION_ERROR", "TIMEOUT_ERROR", "NETWORK_ERROR", "INVALID_CONTENT_TYPE",
   "RESPONSE_TOO_LARGE", "INVALID_ENDPOINT", "INSECURE_PROTOCOL", "CLIENT_DISPOSED"}

\* C21: a request that fails on the response it received fails with a
\* typed error, one that carries a machine-readable code; this includes a
\* body that is not valid JSON.
C21_EveryFailureIsTyped ==
  (Handled /\ ~fetch.res.ok) => fetch.res.code \in TypedCodes

\* C23: a getBalance call that names more than 20 addresses is rejected
\* with the typed validation error, and the cache, the in-flight registry,
\* the calls handed to the limiter and the limiters stay as they were.
C23_TooManyAddressesRejected ==
  [][(last'.op = "getBalance" /\ last'.call > MaxAddresses)
     => (/\ last'.res = "SCHEMA_VALIDATION_ERROR"
         /\ UNCHANGED <<cache, pending, calls, limiters, stopped>>)]_vars

\* The entries of a parameter object whose value is defined.
DefinedPairs(params) == {params[n] : n \in {m \in 1..Len(params) : params[m][2] # UndefinedValue}}

\* C22: two parameter objects with the same defined key/value pairs get
\* the same signature, whatever their insertion order and whatever
\* parameters with an undefined value they hold besides.
C22_SignatureIgnoresOrder ==
  last.op = "createCacheKey" =>
    (DefinedPairs(last.value.params[1]) = DefinedPairs(last.value.params[2])
       => last.value.keys[1] = last.value.keys[2])

\* C22 witness: two objects that hold the same two defined parameters in
\* opposite insertion order got one signature.
C22_Witness ==
  /\ last.op = "createCacheKey"
  /\ Len(last.value.params[1]) = 2
  /\ Len(last.value.params[2]) = 2
  /\ last.value.params[1][1] = last.value.params[2][2]
  /\ last.value.params[1][2] = last.value.params[2][1]
  /\ last.value.params[1][1][1] # last.value.params[1][2][1]
  /\ \A n \in 1..2 : last.value.params[1][n][2] # UndefinedValue
  /\ last.value.keys[1] = last.value.keys[2]

\* A string that holds something besides white space and is not an
\* optionally signed run of decimal digits.
NotAnInteger(cs) ==
  LET body == SelectSeq(cs, LAMBDA c : c # " ")
  IN /\ body # <<>>
     /\ \/ \E n \in 1..Len(cs) : cs[n] \in {"a", "."}
        \/ \E n \in 2..Len(body) : body[n] = "-"
        \/ body = <<"-">>
        \/ \E n \in 2..(Len(cs) - 1) :
             cs[n] = " " /\ (\E m \in 1..(n - 1) : cs[m] # " ")
                        /\ (\E m \in (n + 1)..Len(cs) : cs[m] # " ")

\* C24: a monetary-value schema fails on a string that cannot be parsed as
\* an integer.
C24_UnparsableIsFailure ==
  (last.op = "safeParse" /\ NotAnInteger(last.value.input)) => ~last.value.output.success

\* BigIntSchema alone does fail on every such string.
BigIntSchemaIsStrict ==
  (last.op = "safeParse" /\ last.sig = "BigIntSchema")
    => (NotAnInteger(last.value.input) <=> ~last.value.output.success)

\* C25: what stats() returns has hits equal to the number of get calls so
\* far that returned a stored value and misses equal to the number that
\* returned absent.
C25_StatsCountHitsAndMisses ==
  last.op = "stats" =>
    /\ {"hits", "misses"} \subseteq DOMAIN last.value
    /\ last.value.hits = hist.hits
    /\ last.value.misses = hist.misses

\* C26: once dispose() has run on a Transport, its cache and its in-flight
\* registry are empty in every later state.
C26_DisposedStaysEmpty ==
  \A i \in Insts :
    inst[i].disposeCalls > 0 => (CacheSize(cache[i]) = 0 /\ pending[i] = NoPending)

\* The registry half of C26 alone.
DisposedRegistryStaysEmpty ==
  \A i \in Insts : inst[i].disposeCalls > 0 => pending[i] = NoPending

\* The values a schema can produce.
OutputsOf(schema) == {SafeParse(schema, p).data : p \in {q \in Payloads : SafeParse(schema, q).success}}

\* C27: a request served from the cache returns a value that the schema of
\* this call produces, and a request that joins an in-flight call joins
\* one that validates with the schema of this call.
C27_ValidatedByOwnSchema ==
  [][(last'.op = "request" /\ ran'.schema # "")
     => /\ last'.res = "cache" => last'.value \in OutputsOf(ran'.schema)
        /\ last'.res = "joined" => calls[last'.call].schema = ran'.schema]_vars

\* The jobs started for a credential, on every limiter it was given.
DispatchedFor(apiKey) ==
  UNION {Dispatched(inst[i].limiter) : i \in {j \in Insts : inst[j].apiKey = apiKey}}

\* C28: across constructions and disposals of clients of one credential,
\* the requests dispatched for the credential within one refill interval
\* never exceed the reservoir the clients were constructed with; a client
\* constructed after the last one was disposed gets no fresh quota.
C28_QuotaPerCredential ==
  \A i \in Insts :
    inst[i].kind # "none"
      => Cardinality(DispatchedFor(inst[i].apiKey)) <= inst[i].reservoir

\* The quota holds for each limiter on its own.
QuotaPerLimiter ==
  \A i \in Insts :
    inst[i].kind # "none"
      => Cardinality(Dispatched(inst[i].limiter)) <= LimiterReservoir(inst[i].limiter)

\* A job that ends with a validated value stores it while the in-flight
\* entry of its signature is still registered.
WrittenBeforeRemoved ==
  [][\A c \in CallIds :
       (calls[c].st = "running" /\ calls'[c].st = "completed" /\ calls'[c].res.validated
          /\ cache[calls[c].inst].config.enabled)
       => /\ calls[c].sig \in DOMAIN cache'[calls[c].inst].map
          /\ pending'[calls[c].inst][calls[c].sig] = c]_vars

\* The call of a signature has succeeded and its value is where a later
\* request looks for it: the in-flight entry or an unexpired cache entry.
Answered(i, s) ==
  \/ \E c \in CallsOf(i, s) : calls[c].st = "completed" /\ calls[c].res.ok
  \/ /\ \E c \in CallsOf(i, s) : calls[c].st = "settled"
     /\ cache[i].config.enabled
     /\ s \in DOMAIN cache[i].map
     /\ ~Expired(cache[i].map[s], now)

\* C29: a request that succeeds has its value in the cache before its
\* in-flight entry is removed, and a same-signature request issued from the
\* start of the fetch until the cache entry expires, is evicted or is
\* cleared finds the in-flight call or the cache entry: it starts no second
\* network call.
C29_NoSecondCall ==
  [][/\ \A c \in CallIds :
          (calls[c].st = "running" /\ calls'[c].st = "completed" /\ calls'[c].res.validated
             /\ cache[calls[c].inst].config.enabled)
          => /\ calls[c].sig \in DOMAIN cache'[calls[c].inst].map
             /\ pending'[calls[c].inst][calls[c].sig] = c
     /\ \A i \in Insts, s \in Sigs :
          (RequestStep(i, s)
             /\ (Answered(i, s) \/ \E c \in CallsOf(i, s) : calls[c].st = "running"))
          => (calls' = calls /\ last'.res \in {"cache", "joined"})]_vars

\* C30: LRUCache.updateConfig returns for every configuration value and
\* every cache state, a maxSize of zero or below and a cache whose least
\* recently used key is the empty string included: no call of it enters a
\* loop it never leaves.
C30_UpdateConfigTerminates == ~hung

\* updateConfig returns whenever the new maxSize is zero or more and no
\* entry has the empty string as its key.
TerminatesWithoutEmptyKey ==
  [][(last'.op = "updateConfig" /\ cache'[1].config.maxSize >= 0
        /\ "" \notin DOMAIN cache[1].map)
     => ~hung']_vars

====
